---- MODULE Spec2Model ----
(***************************************************************************)
(* Model of im2scr.py: conversion of an indexed-colour picture into the   *)
(* ZX Spectrum bitmap + attribute format (class zx).                      *)
(*                                                                         *)
(* Conventions.  Python lists are modelled as 1-based sequences, so the   *)
(* Python element l[i] is l[i+1] here.  The pixel access object buf[x, y] *)
(* is a sequence of rows, buf[y+1][x+1], and the dictionary                *)
(* tmp[x >> 3, y >> 3] a sequence of rows of cells, tmp[cy+1][cx+1].  A    *)
(* raised Python exception is recorded by its class name in the variable   *)
(* exc.  Where a sequence is written s \o <<>>, the value is s; TLC then   *)
(* evaluates it once instead of at every use.                              *)
(***************************************************************************)
EXTENDS Integers, Sequences, FiniteSets, TLC

VARIABLES
    im,         \* the PIL image handed to zx(): [w, h, pal, px]
    prefer,     \* self._preferbright: "true", "false" or "none" (None)
    pc,         \* "new" before zx(im, prefer), then "done" or "error"
    exc,        \* exception raised by the constructor, "none" if none
    _hgh,       \* self._hgh
    _mid20,     \* 20 * self._mid  (self._mid = 0.85 * self._hgh = 17/20 * _hgh)
    outp,       \* pal2attr()'s result (apal before the PAPER0 swap)
    apal,       \* im2scr's local apal (after the PAPER0 swap)
    buf,        \* the pixel buffer im.load(), modified in place
    tmp,        \* im2scr's local tmp: cell -> (paper, ink)
    _scr,       \* the bytes written to self._scr (the rest of the buffer is 0)
    _attr,      \* the bytes written to self._attr (the rest of the buffer is 0)
    _scrSize,   \* self._scrSize
    _attrSize,  \* self._attrSize
    _w,         \* self._w (bitmap width in bytes)
    _h,         \* self._h (bitmap height in pixel rows)
    file,       \* the storage target of saveZX: [exists, data]
    saved       \* the last saveZX call: [called, attrs, linear, exc]

vars == <<im, prefer, pc, exc, _hgh, _mid20, outp, apal, buf, tmp,
          _scr, _attr, _scrSize, _attrSize, _w, _h, file, saved>>

-----------------------------------------------------------------------------
(* Program constants *)

BLACKTRESH == 100
MAXW == 256
MAXH == 192
MAXCOLORS == 16

\* zx._palette: R/G/B presence code (R=4, G=2, B=1) -> ZX Spectrum colour
_palette == <<0, 1, 4, 5, 2, 3, 6, 7>>

(* Bounds of the model *)

MaxW == 9           \* widths  1, 8, MaxW, 2*MaxW - 1
MaxH == 9           \* heights 1, 8, MaxH
NumColors == 4      \* palette entries (len(hist)); pixel indices 0..NumColors-1

-----------------------------------------------------------------------------
(* Python's integer operators on non-negative integers *)

RECURSIVE BitAnd(_, _)
BitAnd(a, b) ==
    IF a = 0 \/ b = 0 THEN 0
    ELSE (IF a % 2 = 1 /\ b % 2 = 1 THEN 1 ELSE 0) + 2 * BitAnd(a \div 2, b \div 2)

RECURSIVE BitOr(_, _)
BitOr(a, b) ==
    IF a = 0 THEN b
    ELSE IF b = 0 THEN a
    ELSE (IF a % 2 = 1 \/ b % 2 = 1 THEN 1 ELSE 0) + 2 * BitOr(a \div 2, b \div 2)

RECURSIVE BitXor(_, _)
BitXor(a, b) ==
    IF a = 0 THEN b
    ELSE IF b = 0 THEN a
    ELSE (IF a % 2 # b % 2 THEN 1 ELSE 0) + 2 * BitXor(a \div 2, b \div 2)

Abs(n) == IF n < 0 THEN -n ELSE n

-----------------------------------------------------------------------------
(* zx.y2zx: linear row -> ZX Spectrum frame buffer row.                    *)
(* Python: y & 0xc0 | hh >> 3 | hl << 3, with >>, << binding tighter than  *)
(* & and & tighter than |.                                                 *)

\* with a fault: the third selector is masked with 0x80
y2zxNarrowMask(y) ==
    LET hh == BitAnd(y, 56)
        hl == BitAnd(y, 7)
    IN  BitOr(BitOr(BitAnd(y, 128), hh \div 8), hl * 8)

y2zx(y) ==
    LET hh == BitAnd(y, 56)
        hl == BitAnd(y, 7)
    IN  BitOr(BitOr(BitAnd(y, 192), hh \div 8), hl * 8)

-----------------------------------------------------------------------------
(* zx.verifyrgb.  mid = 0.85 * hgh is a float in the code; the comparison  *)
(* abs(v - mid) < abs(v - hgh) is evaluated here on both sides times 20,   *)
(* |20v - 17 hgh| < |20v - 20 hgh|, which is exact in integers.  (The      *)
(* float product differs from 17*hgh/20 by less than 1e-13 and is exact    *)
(* where the two distances are equal, 40 v = 37 hgh, so the float          *)
(* comparison has the same outcome for all channel values 0..255.)         *)

\* with a fault: <= for <
CloserToMidLe(v, mid20, hgh) == Abs(20 * v - mid20) =< Abs(20 * v - 20 * hgh)

\* the test of lines 207, 213, 219
CloserToMid(v, mid20, hgh) == Abs(20 * v - mid20) < Abs(20 * v - 20 * hgh)

\* c and cb after lines 203-222: <<c, cb>>
Candidates(r, g, b, mid20, hgh) ==
    LET c1  == IF r >= BLACKTRESH /\ CloserToMid(r, mid20, hgh) THEN 4 ELSE 0
        cb1 == IF r >= BLACKTRESH /\ ~CloserToMid(r, mid20, hgh) THEN 4 ELSE 0
        c2  == IF g >= BLACKTRESH /\ CloserToMid(g, mid20, hgh) THEN BitOr(c1, 2) ELSE c1
        cb2 == IF g >= BLACKTRESH /\ ~CloserToMid(g, mid20, hgh) THEN BitOr(cb1, 2) ELSE cb1
        c3  == IF b >= BLACKTRESH /\ CloserToMid(b, mid20, hgh) THEN BitOr(c2, 1) ELSE c2
        cb3 == IF b >= BLACKTRESH /\ ~CloserToMid(b, mid20, hgh) THEN BitOr(cb2, 1) ELSE cb2
    IN  <<c3, cb3>>

\* the value verifyrgb raises ZXException with is modelled as -1
Raised == -1

\* lines 224-241 with a fault: without a preference a conflict becomes dim
ResolveSilentDim(c, cb, pref) ==
    LET conflict == c > 0 /\ cb > 0
        c2  == IF conflict /\ pref = "true" THEN 0
               ELSE IF conflict THEN BitOr(c, cb) ELSE c
        cb2 == IF conflict /\ pref = "true" THEN BitOr(cb, c)
               ELSE IF conflict THEN 0 ELSE cb
    IN  IF c2 = 0 /\ cb2 = 0 THEN _palette[1]
        ELSE IF c2 # 0 THEN _palette[c2 + 1]
        ELSE BitOr(_palette[cb2 + 1], 64)

\* lines 224-241
Resolve(c, cb, pref) ==
    LET conflict == c > 0 /\ cb > 0
        c2  == IF conflict /\ pref = "true" THEN 0
               ELSE IF conflict /\ pref = "false" THEN BitOr(c, cb) ELSE c
        cb2 == IF conflict /\ pref = "true" THEN BitOr(cb, c)
               ELSE IF conflict /\ pref = "false" THEN 0 ELSE cb
    IN  IF conflict /\ pref = "none" THEN Raised
        ELSE IF c2 = 0 /\ cb2 = 0 THEN _palette[1]
        ELSE IF c2 # 0 THEN _palette[c2 + 1]
        ELSE BitOr(_palette[cb2 + 1], 64)

verifyrgb(r, g, b, mid20, hgh, pref) ==
    LET cc == Candidates(r, g, b, mid20, hgh)
    IN  Resolve(cc[1], cc[2], pref)

-----------------------------------------------------------------------------
(* zx.pal2attr *)

\* lines 269-273: the largest colour component of pal[0 .. num*3 - 1]
RECURSIVE MaxComponent(_, _, _, _)
MaxComponent(pal, i, n, hgh) ==
    IF i < n
    THEN MaxComponent(pal, i + 1, n, IF pal[i + 1] > hgh THEN pal[i + 1] ELSE hgh)
    ELSE hgh

\* lines 275-287: outp, with Raised at an entry verifyrgb raises on
pal2attr(pal, num, mid20, hgh, pref) ==
    [i \in 1..num |->
        verifyrgb(pal[(i-1)*3 + 1], pal[(i-1)*3 + 2], pal[(i-1)*3 + 3],
                  mid20, hgh, pref)] \o <<>>

-----------------------------------------------------------------------------
(* list.index(0): the first position holding 0, ValueError (-1) if none *)

RECURSIVE IndexFrom(_, _, _)
IndexFrom(l, v, i) ==
    IF i >= Len(l) THEN -1
    ELSE IF l[i + 1] = v THEN i
    ELSE IndexFrom(l, v, i + 1)

Index(l, v) == IndexFrom(l, v, 0)

-----------------------------------------------------------------------------
(* zx.swappaper0: <<buf, pal>> after the call *)

Pixel(b, x, y) == b[y + 1][x + 1]           \* buf[x, y]

\* with a fault: the palette entries are not swapped
swappaper0KeepPal(b, size, pal, paper0) ==
    <<[y \in 1..size[2] |-> [x \in 1..size[1] |->
          IF b[y][x] = paper0 THEN 0
          ELSE IF b[y][x] = 0 THEN paper0
          ELSE b[y][x]]],
      pal>>

swappaper0(b, size, pal, paper0) ==
    <<[y \in 1..size[2] |-> [x \in 1..size[1] |->
          IF b[y][x] = paper0 THEN 0
          ELSE IF b[y][x] = 0 THEN paper0
          ELSE b[y][x]]],
      [pal EXCEPT ![1] = pal[paper0 + 1], ![paper0 + 1] = pal[1]]>>

\* im2scr lines 394-399: <<buf, apal>> after the normalisation
Normalize(b, size, pal) ==
    LET paper0 == Index(pal, 0)
    IN  IF paper0 # 0 THEN swappaper0(b, size, pal, paper0) ELSE <<b, pal>>

-----------------------------------------------------------------------------
(* zx.selectcolors *)

\* lines 316-329: the dictionary c, as the count of every index in the block
\* (an index that does not occur has count 0 and is no key of c)
BlockCount(b, stax, stay, w, h, k) ==
    Cardinality({p \in (stax..(stax + w - 1)) \X (stay..(stay + h - 1)) :
                    Pixel(b, p[1], p[2]) = k})

\* line 333: sorted(c, key=c.get, reverse=True).  The sort is stable, so keys
\* of equal count keep the dictionary's iteration order, which Python leaves
\* unspecified: lowfirst chooses between ascending and descending key order.
RECURSIVE SortedByCount(_, _, _)
SortedByCount(keys, cnt, lowfirst) ==
    IF keys = {} THEN <<>>
    ELSE LET top  == {k \in keys : \A j \in keys : cnt[k] >= cnt[j]}
             head == IF lowfirst
                     THEN CHOOSE k \in top : \A j \in top : k =< j
                     ELSE CHOOSE k \in top : \A j \in top : k >= j
         IN  <<head>> \o SortedByCount(keys \ {head}, cnt, lowfirst)

\* lines 331-343 with a fault: index 0 is sorted along with the others
PickByFrequency(cnt, lowfirst) ==
    LET colors == SortedByCount({k \in DOMAIN cnt : cnt[k] > 0}, cnt, lowfirst)
    IN  IF Len(colors) = 0 THEN <<0, 0>>
        ELSE IF Len(colors) = 1 THEN <<colors[1], colors[1]>>
        ELSE <<colors[1], colors[2]>>

\* lines 331-343 with a fault: index 0 is popped, but its presence is not
\* looked at, so that the paper comes from the other colours
PickIgnoringPaper0(cnt, lowfirst) ==
    LET colors == SortedByCount({k \in DOMAIN cnt : k # 0 /\ cnt[k] > 0}, cnt, lowfirst)
    IN  IF Len(colors) = 0 THEN <<0, 0>>
        ELSE IF Len(colors) = 1 THEN <<colors[1], colors[1]>>
        ELSE <<colors[1], colors[2]>>

\* lines 331-343
Pick(cnt, lowfirst) ==
    LET paper0 == cnt[0]                \* c.pop(0, None); 0 stands for None
        colors == SortedByCount({k \in DOMAIN cnt : k # 0 /\ cnt[k] > 0}, cnt, lowfirst)
    IN  IF Len(colors) = 0 THEN <<0, 0>>
        ELSE IF paper0 = 0
             THEN IF Len(colors) = 1 THEN <<colors[1], colors[1]>>
                  ELSE <<colors[1], colors[2]>>
             ELSE <<0, colors[1]>>

selectcolors(b, stax, stay, w, h, lowfirst) ==
    Pick([k \in 0..(NumColors - 1) |-> BlockCount(b, stax, stay, w, h, k)], lowfirst)

\* im2scr lines 407, 411: the block's extent, clamped at the picture's edge
BlockExtent(pos, size) == IF pos + 8 < size THEN 8 ELSE size - pos

\* im2scr lines 402-415: tmp
Cell(t, cx, cy) == t[cy + 1][cx + 1]        \* tmp[cx, cy]

SelectAll(b, size, lowfirst) ==
    [cy \in 1..(((size[2] - 1) \div 8) + 1) |->
        [cx \in 1..(((size[1] - 1) \div 8) + 1) |->
            selectcolors(b, (cx - 1) * 8, (cy - 1) * 8,
                         BlockExtent((cx - 1) * 8, size[1]),
                         BlockExtent((cy - 1) * 8, size[2]), lowfirst)] \o <<>>] \o <<>>

-----------------------------------------------------------------------------
(* im2scr lines 418-449: the bitmap *)

\* lines 441-446 with a fault: no shift to the byte boundary
FlushRowNoShift(gfx, out) ==
    IF gfx > 1 THEN Append(out, gfx % 256) ELSE out

\* lines 442-443: while not gfx & 0x100: gfx = gfx << 1
RECURSIVE ShiftToByte(_)
ShiftToByte(gfx) ==
    IF BitAnd(gfx, 256) = 0 THEN ShiftToByte(gfx * 2) ELSE gfx

\* lines 441-446: the short last byte of a row
FlushRow(gfx, out) ==
    IF gfx > 1 THEN Append(out, ShiftToByte(gfx) % 256) ELSE out

\* lines 423-438: one row from column x on; gfx is the byte being built
RECURSIVE PackRow(_, _, _, _, _, _, _)
PackRow(b, t, width, y, x, gfx, out) ==
    IF x >= width THEN FlushRow(gfx, out)
    ELSE LET pixel == Pixel(b, x, y)
             g1 == gfx * 2
             g2 == IF pixel # 0 /\ pixel # Cell(t, x \div 8, y \div 8)[1]
                   THEN g1 + 1 ELSE g1
         IN  IF BitAnd(g2, 256) # 0
             THEN PackRow(b, t, width, y, x + 1, 1, Append(out, g2 % 256))
             ELSE PackRow(b, t, width, y, x + 1, g2, out)

\* lines 418-446: the bytes of rows lo..hi, in the order index writes them
\* (the rows are joined by halving the range, which bounds the nesting)
RECURSIVE PackRows(_, _, _, _, _)
PackRows(b, t, width, lo, hi) ==
    IF lo > hi THEN <<>>
    ELSE IF lo = hi THEN PackRow(b, t, width, lo, 0, 1, <<>>)
    ELSE LET m == (lo + hi) \div 2
         IN  PackRows(b, t, width, lo, m) \o PackRows(b, t, width, m + 1, hi)

-----------------------------------------------------------------------------
(* im2scr lines 458-479: the attributes *)

\* line 476 with a fault: no mask
AttrByteNoMask(paper, ink) == BitOr(ink, paper * 8)

\* line 476: (ink | (paper << 3)) & 0xff
AttrByte(paper, ink) == BitAnd(BitOr(ink, paper * 8), 255)

\* lines 467-474: ink after the BRIGHT conflict check, Raised on a conflict
\* without a preference
FixInk(paper, ink, pref) ==
    IF paper # 0 /\ ink # 0 /\ BitAnd(BitXor(paper, ink), 64) # 0
    THEN IF pref = "true" THEN BitOr(ink, 64)
         ELSE IF pref = "false" THEN BitAnd(ink, 191)    \* ink &= ~0x40
         ELSE Raised
    ELSE ink

\* lines 462-477 from cell number index on (row-major, w cells per row):
\* the bytes written, up to the end or to the cell the loop raises on
RECURSIVE AttrLoop(_, _, _, _, _, _, _)
AttrLoop(t, pal, w, y8, pref, index, out) ==
    IF index >= w * y8 THEN out
    ELSE LET x == index % w
             y == index \div w
             paper == pal[Cell(t, x, y)[1] + 1]
             ink == FixInk(paper, pal[Cell(t, x, y)[2] + 1], pref)
         IN  IF ink = Raised THEN out
             ELSE AttrLoop(t, pal, w, y8, pref, index + 1,
                           Append(out, AttrByte(paper, ink)))

\* line 474 is reached: the loop stopped at cell number index, short of the end
AttrRaised(t, pal, w, y8, pref, index) == index < w * y8

-----------------------------------------------------------------------------
(* Input pictures.  A picture is drawn from a seed of three palette        *)
(* indices laid out in diagonal stripes of period 7 and widths 4, 2, 1;    *)
(* the seed is rotated from one 8x8 block to the next, so that the colours *)
(* of a block differ in their counts and the blocks of a picture in their  *)
(* dominant colours.  im.px keeps the pixels as they were handed in.       *)

Stripe(r) == IF r < 4 THEN 1 ELSE IF r < 6 THEN 2 ELSE 3

StripedPixel(seed, x, y) ==
    seed[((Stripe((x + y) % 7) - 1 + (x \div 8) + (y \div 8)) % 3) + 1]

Picture(w, h, pal, seed) ==
    [w |-> w, h |-> h, pal |-> pal,
     px |-> [y \in 1..h |-> [x \in 1..w |-> StripedPixel(seed, x - 1, y - 1)]]]

\* a picture whose blocks differ in the number of their colours: the blocks
\* of the left column hold two stripes of the seed, the others all three,
\* and the seed is rotated from one row of blocks to the next
CellwisePixel(seed, x, y) ==
    LET s == Stripe((x + y) % 7)
        k == IF x < 8 /\ s = 3 THEN 2 ELSE s
    IN  seed[((k - 1 + (y \div 8)) % 3) + 1]

CellwisePicture(w, h, pal, seed) ==
    [w |-> w, h |-> h, pal |-> pal,
     px |-> [y \in 1..h |-> [x \in 1..w |-> CellwisePixel(seed, x - 1, y - 1)]]]

Indices == 0..(NumColors - 1)
Seeds == [1..3 -> Indices]
RotSeeds == {[i \in 1..3 |-> (a + i - 1) % NumColors] : a \in Indices}
TallSeeds == {<<0, 1, 2>>, <<1, 2, 3>>}

Black == <<0, 0, 0>>
DimRed == <<215, 0, 0>>
BrightBlue == <<0, 0, 255>>
BrightWhite == <<255, 255, 255>>

RECURSIVE Flatten(_)
Flatten(entries) ==
    IF entries = <<>> THEN <<>> ELSE entries[1] \o Flatten(Tail(entries))

\* palettes of NumColors entries
BaseColors == <<Black, DimRed, BrightBlue, BrightWhite>>
BlackFirst == Flatten([i \in 1..NumColors |-> BaseColors[((i - 1) % 4) + 1]])
BlackThird == Flatten([i \in 1..NumColors |-> BaseColors[((i + 1) % 4) + 1]])
MixedPalettes ==
    {Flatten([i \in 1..NumColors |-> f[i]]) :
        f \in [1..NumColors -> {Black, DimRed, BrightBlue}]}
Levels == {0, 99, 100, 185, 215, 255}
TopLevels == {200, 215, 255}
ProbePalettes ==
    {Flatten([i \in 1..NumColors |->
                 IF i = 2 THEN <<r, g, b>> ELSE IF i = 3 THEN <<m, 0, 0>> ELSE Black]) :
        r \in Levels, g \in Levels, b \in Levels, m \in TopLevels}

Prefs == {"true", "false", "none"}
NoFile == [exists |-> FALSE, data |-> <<>>]
OldFile == [exists |-> TRUE, data |-> <<165>>]
NotSaved == [called |-> FALSE, attrs |-> FALSE, linear |-> FALSE, exc |-> "none"]

\* the pictures and preferences the constructor is called with, and the
\* storage target before any save
Inputs ==
    \/ \E w \in {1, 8, MaxW, 2 * MaxW - 1}, h \in {1, 8, MaxH},
          pal \in {BlackFirst, BlackThird}, seed \in Seeds :
          /\ im = Picture(w, h, pal, seed)
          /\ prefer = "false"
          /\ file = NoFile
    \/ \E pal \in MixedPalettes, seed \in RotSeeds :
          /\ im = Picture(2 * MaxW - 1, 1, pal, seed)
          /\ prefer \in Prefs
          /\ file = NoFile
    \/ \E pal \in ProbePalettes :
          /\ im = Picture(8, 1, pal, [i \in 1..3 |-> 0])
          /\ prefer \in Prefs
          /\ file = NoFile
    \/ \E w \in {8, MaxW}, h \in {63, 64, 128, 192}, seed \in TallSeeds :
          /\ im = Picture(w, h, BlackFirst, seed)
          /\ prefer = "true"
          /\ file \in {NoFile, OldFile}
    \/ \E pal \in {BlackFirst, BlackThird}, seed \in Seeds :
          /\ im = CellwisePicture(2 * MaxW - 1, MaxH, pal, seed)
          /\ prefer = "false"
          /\ file = NoFile

Init ==
    /\ Inputs
    /\ buf = im.px
    /\ pc = "new"
    /\ exc = "none"
    /\ _hgh = 0 /\ _mid20 = 0
    /\ outp = <<>> /\ apal = <<>> /\ tmp = <<>>
    /\ _scr = <<>> /\ _attr = <<>>
    /\ _scrSize = 0 /\ _attrSize = 0
    /\ _w = 0 /\ _h = 0
    /\ saved = NotSaved

-----------------------------------------------------------------------------
(* zx.im2scr, statement by statement: a primed variable is the value the   *)
(* statement leaves behind, and a raise leaves the later variables as they *)
(* were.                                                                   *)

\* with a fault: the width is rounded down
FloorWidth(x) == x \div 8

\* lines 454, 460: x >> 3 if x % 8 == 0 else (x >> 3) + 1
CeilWidth(x) == IF x % 8 = 0 THEN x \div 8 ELSE (x \div 8) + 1

Raise(e) == pc' = "error" /\ exc' = e

im2scr(lowfirst) ==
    LET numcolors == Len(im.pal) \div 3                    \* len(im.histogram())
        used      == Cardinality({buf[y][x] : y \in 1..im.h, x \in 1..im.w})
                                                    \* numcolors - hist.count(0)
        size      == <<im.w, im.h>>
    IN
    IF used > MAXCOLORS
    THEN /\ Raise("ZXException")
         /\ UNCHANGED <<_hgh, _mid20, outp, apal, buf, tmp,
                        _scr, _attr, _scrSize, _attrSize, _w, _h>>
    ELSE
    /\ _hgh' = MaxComponent(im.pal, 0, numcolors * 3, 0)
    /\ _mid20' = 17 * _hgh'
    /\ LET converted == pal2attr(im.pal, numcolors, _mid20', _hgh', prefer)
       IN
       IF \E i \in 1..numcolors : converted[i] = Raised
       THEN /\ Raise("ZXException")
            /\ UNCHANGED <<outp, apal, buf, tmp,
                           _scr, _attr, _scrSize, _attrSize, _w, _h>>
       ELSE
       /\ outp' = converted
       /\ IF Index(outp', 0) = -1
          THEN /\ Raise("ValueError")
               /\ UNCHANGED <<apal, buf, tmp,
                              _scr, _attr, _scrSize, _attrSize, _w, _h>>
          ELSE
          /\ buf' = Normalize(buf, size, outp')[1]
          /\ apal' = Normalize(buf, size, outp')[2]
          /\ tmp' = SelectAll(buf', size, lowfirst)
          /\ _scr' = PackRows(buf', tmp', size[1], 0, size[2] - 1)
          /\ _scrSize' = Len(_scr')
          /\ _w' = CeilWidth(size[1])
          /\ _h' = size[2]
          /\ _attr' = AttrLoop(tmp', apal', _w', CeilWidth(_h'), prefer, 0, <<>>)
          /\ IF AttrRaised(tmp', apal', _w', CeilWidth(_h'), prefer, Len(_attr'))
             THEN /\ Raise("ZXException")
                  /\ UNCHANGED _attrSize
             ELSE /\ _attrSize' = Len(_attr')
                  /\ pc' = "done"
                  /\ exc' = "none"

-----------------------------------------------------------------------------
(* zx.__init__ (the picture is in mode "P") *)

Construct ==
    /\ pc = "new"
    /\ IF im.w > MAXW \/ im.h > MAXH
       THEN /\ Raise("ValueError")
            /\ UNCHANGED <<_hgh, _mid20, outp, apal, buf, tmp,
                           _scr, _attr, _scrSize, _attrSize, _w, _h>>
       ELSE \E lowfirst \in BOOLEAN : im2scr(lowfirst)
    /\ UNCHANGED <<im, prefer, file, saved>>

-----------------------------------------------------------------------------
(* zx.saveZX *)

\* buffer(b, start, n): n bytes of the bytearray from start on; the bytes
\* beyond those written are the 0 the bytearray was created with
Buffer(written, start, n) ==
    [i \in 1..n |-> IF start + i =< Len(written) THEN written[start + i] ELSE 0]

\* lines 508-512: the rows written for y = lo..hi, in the order of writing
RECURSIVE NativeRows(_, _, _, _)
NativeRows(scr, w, lo, hi) ==
    IF lo > hi THEN <<>>
    ELSE IF lo = hi THEN Buffer(scr, y2zx(lo) * w, w)
    ELSE LET m == (lo + hi) \div 2
         IN  NativeRows(scr, w, lo, m) \o NativeRows(scr, w, m + 1, hi)

saveZX(attrs, linear) ==
    /\ pc = "done"
    /\ LET opened == <<>>                      \* open(name, "w") truncates
           bitmap == IF linear THEN Buffer(_scr, 0, _scrSize)
                     ELSE NativeRows(_scr, _w, 0, _h - 1)
           tail   == IF attrs THEN Buffer(_attr, 0, _attrSize) ELSE <<>>
       IN  IF ~linear /\ _h % 64 # 0
           THEN /\ file' = [exists |-> TRUE, data |-> opened]
                /\ saved' = [called |-> TRUE, attrs |-> attrs, linear |-> linear,
                             exc |-> "ZXException"]
           ELSE /\ file' = [exists |-> TRUE, data |-> opened \o bitmap \o tail]
                /\ saved' = [called |-> TRUE, attrs |-> attrs, linear |-> linear,
                             exc |-> "none"]
    /\ UNCHANGED <<im, prefer, pc, exc, _hgh, _mid20, outp, apal, buf, tmp,
                   _scr, _attr, _scrSize, _attrSize, _w, _h>>

Save == \E attrs \in BOOLEAN, linear \in BOOLEAN : saveZX(attrs, linear)

Next == Construct \/ Save

Spec == Init /\ [][Next]_vars

-----------------------------------------------------------------------------
(* Properties.  The definitions below restate the documented behaviour    *)
(* with plain arithmetic on the picture handed in and the state left       *)
(* behind.  Only where a property speaks of an operation itself (y2zx, a   *)
(* second run of the Normalizer) is the operator above applied.            *)

CeilDiv8(n) == (n + 7) \div 8

Converted == pc = "done"

\* the getters of lines 494-499
getScrSize == _scrSize
getAttrSize == _attrSize

\* C1: after a completed conversion of a w x h picture the final width is
\* ceil(w/8) bytes, the final height h, getScrSize() = ceil(w/8) * h and
\* getAttrSize() = ceil(w/8) * ceil(h/8), also when w or h is no multiple of 8.
GeometryMatches ==
    Converted =>
        /\ _w = CeilDiv8(im.w)
        /\ _h = im.h
        /\ getScrSize = CeilDiv8(im.w) * im.h
        /\ getAttrSize = CeilDiv8(im.w) * CeilDiv8(im.h)

GeometryWitness ==
    Converted /\ im.w > 8 /\ im.w % 8 # 0 /\ im.h > 8 /\ im.h % 8 # 0

\* the distinct palette indices the picture uses
UsedIndices == {im.px[y][x] : y \in 1..im.h, x \in 1..im.w}

\* C2: with at most 16 colours in use, dimensions within 256x192 and a
\* brightness preference given, the constructor raises nothing and produces
\* the bitmap and the attribute buffer, whatever the palette holds.
ConversionAlwaysCompletes ==
    (/\ pc # "new"
     /\ prefer # "none"
     /\ Cardinality(UsedIndices) =< 16
     /\ im.w \in 1..256 /\ im.h \in 1..192)
    => /\ pc = "done" /\ exc = "none"
       /\ getScrSize > 0 /\ getAttrSize > 0

\* the largest channel of the palette, and the channels of entry i (from 0)
PalMax == CHOOSE m \in {im.pal[j] : j \in 1..Len(im.pal)} :
              \A j \in 1..Len(im.pal) : im.pal[j] =< m
Channels(i) == <<im.pal[3 * i + 1], im.pal[3 * i + 2], im.pal[3 * i + 3]>>
Entries == 0..((Len(im.pal) \div 3) - 1)

\* a channel at or above the threshold is strictly closer to mid = 0.85 M than
\* to M exactly when it lies below their midpoint 0.925 M, i.e. 40 v < 37 M
DimChannel(v) == v >= 100 /\ 40 * v < 37 * PalMax
BrightChannel(v) == v >= 100 /\ 40 * v >= 37 * PalMax

\* a palette entry with a dim and a bright candidate bit
PaletteConflict(i) ==
    /\ \E c \in 1..3 : DimChannel(Channels(i)[c])
    /\ \E c \in 1..3 : BrightChannel(Channels(i)[c])

\* the cells in row-major order, and the classified attributes of cell k
CellsAcross == CeilDiv8(im.w)
CellCount == CellsAcross * CeilDiv8(im.h)
PaperOf(k) == tmp[(k \div CellsAcross) + 1][(k % CellsAcross) + 1][1]
InkOf(k) == tmp[(k \div CellsAcross) + 1][(k % CellsAcross) + 1][2]
PaperAttr(k) == apal[PaperOf(k) + 1]
InkAttr(k) == apal[InkOf(k) + 1]
BrightBit(a) == (a \div 64) % 2

\* a cell whose paper and ink are both nonzero and differ in BRIGHT
CellConflict(k) ==
    /\ PaperAttr(k) # 0 /\ InkAttr(k) # 0
    /\ BrightBit(PaperAttr(k)) # BrightBit(InkAttr(k))

\* C3: without a preference a brightness conflict, of a classified palette
\* entry or of a cell's paper and ink, always ends the conversion with an
\* error; no attribute is emitted for the conflicting cell and no default
\* brightness is chosen.
ConflictAlwaysFails ==
    (prefer = "none" /\ pc # "new") =>
        /\ (\E i \in Entries : PaletteConflict(i)) =>
               /\ pc = "error" /\ exc = "ZXException"
               /\ outp = <<>> /\ _attr = <<>> /\ getAttrSize = 0
        /\ tmp # <<>> =>
               \A k \in 0..(CellCount - 1) :
                   CellConflict(k) =>
                       /\ pc = "error" /\ exc = "ZXException"
                       /\ Len(_attr) =< k /\ getAttrSize = 0

ConflictWitness ==
    /\ prefer = "none" /\ pc = "error" /\ tmp # <<>>
    /\ Len(_attr) >= 1
    /\ CellConflict(Len(_attr))

\* the other case of C3: a conflicting palette entry
PaletteConflictReached ==
    prefer = "none" /\ pc = "error" /\ \E i \in Entries : PaletteConflict(i)

-----------------------------------------------------------------------------
(* saveZX *)

\* what a complete save leaves in the storage target
LinearBitmap == [i \in 1..getScrSize |-> _scr[i]]
AttrBytes == [i \in 1..getAttrSize |-> _attr[i]]

\* C4: a native save (linear=False) of a picture whose height is no multiple
\* of 64 raises before any output exists: nothing is written and the storage
\* target is neither created nor modified; a linear save of the same picture
\* succeeds and writes the getScrSize() bitmap bytes, then the attribute
\* bytes when attrs is true.
NativeSaveLeavesTargetAlone ==
    /\ [][(saved'.called /\ ~saved'.linear /\ _h % 64 # 0)
            => (saved'.exc = "ZXException" /\ file' = file)]_vars
    /\ [](saved.called /\ saved.linear =>
            /\ saved.exc = "none"
            /\ file.data = LinearBitmap \o (IF saved.attrs THEN AttrBytes ELSE <<>>))

\* the two halves of C4, each on its own
FailedNativeSaveWritesNothing ==
    (saved.called /\ ~saved.linear /\ _h % 64 # 0) =>
        saved.exc = "ZXException" /\ file.data = <<>>

LinearSaveComplete ==
    (saved.called /\ saved.linear) =>
        /\ saved.exc = "none"
        /\ file.data = LinearBitmap \o (IF saved.attrs THEN AttrBytes ELSE <<>>)

\* bits 6-7 kept, the 3-bit fields of bits 3-5 and bits 0-2 exchanged
SwapFields(y) == (y \div 64) * 64 + (y % 8) * 8 + ((y \div 8) % 8)

NativeSaved == saved.called /\ ~saved.linear /\ saved.exc = "none"

\* C5: y2zx keeps bits 6-7 and swaps the fields of bits 3-5 and 0-2; it is
\* its own inverse on 0..191 and maps 0..h-1 onto 0..h-1 for h = 64, 128,
\* 192.  A native save of a picture of such a height writes h rows of
\* ceil(w/8) bytes, storage row p being linear row y2zx(p), every read inside
\* the getScrSize() valid bytes, followed by the attribute bytes in linear
\* order.
NativeLayout ==
    NativeSaved =>
        /\ \A y \in 0..191 : y2zx(y) = SwapFields(y) /\ y2zx(y2zx(y)) = y
        /\ \A hh \in {64, 128, 192} : {y2zx(y) : y \in 0..(hh - 1)} = 0..(hh - 1)
        /\ _h \in {64, 128, 192}
        /\ _w = CeilDiv8(im.w)
        /\ Len(file.data) = _h * _w + (IF saved.attrs THEN getAttrSize ELSE 0)
        /\ \A p \in 0..(_h - 1) :
              /\ SwapFields(p) * _w + _w =< getScrSize
              /\ \A j \in 1.._w : file.data[p * _w + j] = _scr[SwapFields(p) * _w + j]
        /\ saved.attrs => \A k \in 1..getAttrSize : file.data[_h * _w + k] = _attr[k]

NativeLayoutWitness ==
    /\ NativeSaved /\ saved.attrs
    /\ _h = 128 /\ _w = 2
    /\ \E p \in 0..(_h - 1), q \in 0..(_h - 1) :
          _scr[p * _w + 1] # _scr[q * _w + 1]

-----------------------------------------------------------------------------
(* selectcolors *)

\* the pixels of cell (cx, cy), clamped to the picture, and their counts
Least(a, b) == IF a < b THEN a ELSE b
CellPixels(cx, cy) ==
    ((8 * cx)..Least(8 * cx + 7, im.w - 1)) \X ((8 * cy)..Least(8 * cy + 7, im.h - 1))
CountIn(cx, cy, k) == Cardinality({p \in CellPixels(cx, cy) : buf[p[2] + 1][p[1] + 1] = k})
NonZeroIn(cx, cy) == {buf[p[2] + 1][p[1] + 1] : p \in CellPixels(cx, cy)} \ {0}
HasZero(cx, cy) == \E p \in CellPixels(cx, cy) : buf[p[2] + 1][p[1] + 1] = 0
NoTies(cx, cy) ==
    \A j \in NonZeroIn(cx, cy), k \in NonZeroIn(cx, cy) :
        j # k => CountIn(cx, cy, j) # CountIn(cx, cy, k)
MostFrequent(cx, cy, among) ==
    CHOOSE k \in among : \A j \in among : CountIn(cx, cy, j) =< CountIn(cx, cy, k)

\* the (paper, ink) of the selection policy
Policy(cx, cy) ==
    LET nz    == NonZeroIn(cx, cy)
        first == MostFrequent(cx, cy, nz)
    IN  IF nz = {} THEN <<0, 0>>
        ELSE IF Cardinality(nz) = 1
        THEN IF HasZero(cx, cy) THEN <<0, first>> ELSE <<first, first>>
        ELSE IF HasZero(cx, cy) THEN <<0, first>>
        ELSE <<first, MostFrequent(cx, cy, nz \ {first})>>

CellGrid == (0..(CeilDiv8(im.w) - 1)) \X (0..(CeilDiv8(im.h) - 1))

\* C6: in every cell of the normalized picture without two non-zero colours
\* of equal count, selectcolors returns (0,0) for k=0, (c,c) for k=1 without
\* zero, (0,c) for k=1 with zero, (most, second most frequent) for k>=2
\* without zero and (0, most frequent non-zero) for k>=2 with zero, counting
\* only the pixels of the cell clamped to the picture's edges.
SelectionPolicy ==
    tmp # <<>> =>
        \A c \in CellGrid :
            NoTies(c[1], c[2]) => tmp[c[2] + 1][c[1] + 1] = Policy(c[1], c[2])

SelectionWitness ==
    /\ tmp # <<>>
    /\ im.w % 8 # 0 /\ im.h % 8 # 0
    /\ \E c \in CellGrid :
          /\ NoTies(c[1], c[2])
          /\ Cardinality(NonZeroIn(c[1], c[2])) >= 2
          /\ HasZero(c[1], c[2])
          /\ \A k \in NonZeroIn(c[1], c[2]) : CountIn(c[1], c[2], 0) < CountIn(c[1], c[2], k)

\* a cell of three or more colours without index 0 and without ties
ThreeColoursWithoutZeroReached ==
    /\ tmp # <<>>
    /\ \E c \in CellGrid :
          /\ NoTies(c[1], c[2])
          /\ Cardinality(NonZeroIn(c[1], c[2])) >= 3
          /\ ~HasZero(c[1], c[2])

-----------------------------------------------------------------------------
(* verifyrgb / pal2attr *)

\* the channels of entry i that reach the threshold, as a sum of the weights
\* wr, wg, wb
HueOf(i, wr, wg, wb) ==
    (IF Channels(i)[1] >= 100 THEN wr ELSE 0)
    + (IF Channels(i)[2] >= 100 THEN wg ELSE 0)
    + (IF Channels(i)[3] >= 100 THEN wb ELSE 0)

\* BRIGHT of entry i: 0 when no channel reaches the threshold or all that do
\* are dim, 1 when all are bright, the preference when they are mixed
BrightOf(i) ==
    IF PaletteConflict(i) THEN (IF prefer = "true" THEN 1 ELSE 0)
    ELSE IF \E c \in 1..3 : BrightChannel(Channels(i)[c]) THEN 1
    ELSE 0

Classified == outp # <<>>

\* C7 as stated: the classifier returns hue | (BRIGHT ? 0x40 : 0) with hue the
\* R/G/B presence code (R=4, G=2, B=1) of the channels >= 100, BRIGHT 0 when
\* those channels are strictly closer to mid = 0.85 M than to M, 1 when at
\* least as close to M, the preference deciding a mixed entry; (215,0,0) with
\* M=255 gives hue 4, BRIGHT 0.
ClassifiedByPresenceCode ==
    Classified =>
        \A i \in Entries : outp[i + 1] = HueOf(i, 4, 2, 1) + 64 * BrightOf(i)

\* C7 as the code has it: the hue is the ZX Spectrum colour number of those
\* channels (G=4, R=2, B=1), the presence code taken through zx._palette;
\* (215,0,0) with M=255 gives hue 2, BRIGHT 0.
ClassifiedByColourNumber ==
    Classified =>
        /\ \A i \in Entries : outp[i + 1] = HueOf(i, 2, 4, 1) + 64 * BrightOf(i)
        /\ \A i \in Entries :
              (Channels(i) = <<215, 0, 0>> /\ PalMax = 255) => outp[i + 1] = 2

ClassifiedWitness ==
    /\ Classified /\ PalMax = 255 /\ prefer # "none"
    /\ \E i \in Entries : Channels(i) = <<215, 0, 0>> /\ outp[i + 1] = 2
    /\ \E i \in Entries : PaletteConflict(i) /\ outp[i + 1] >= 64

\* a channel exactly as close to mid as to M counts as bright
TieClassifiedBright ==
    /\ Classified
    /\ \E i \in Entries :
          /\ 40 * Channels(i)[1] = 37 * PalMax /\ Channels(i)[1] >= 100
          /\ outp[i + 1] >= 64

-----------------------------------------------------------------------------
(* the Normalizer, im2scr lines 394-399 *)

\* the first entry classified 0, and the exchange of it with index 0
FirstBlack == CHOOSE i \in Entries : outp[i + 1] = 0 /\ \A j \in 0..(i - 1) : outp[j + 1] # 0
Exchanged(k) == IF k = 0 THEN FirstBlack ELSE IF k = FirstBlack THEN 0 ELSE k

Normalized == apal # <<>>

\* C8: the Normalizer exchanges index 0 with the first index classified 0, in
\* the classified table and in every pixel; afterwards the attribute at index
\* 0 is 0, and running it again swaps nothing and leaves table and pixels as
\* they are.
NormalizerIdempotent ==
    Normalized =>
        /\ \A k \in Entries : apal[k + 1] = outp[Exchanged(k) + 1]
        /\ \A y \in 1..im.h, x \in 1..im.w : buf[y][x] = Exchanged(im.px[y][x])
        /\ apal[1] = 0
        /\ Index(apal, 0) = 0
        /\ Normalize(buf, <<im.w, im.h>>, apal) = <<buf, apal>>

NormalizerWitness ==
    /\ Normalized
    /\ outp[1] # 0
    /\ \E y \in 1..im.h, x \in 1..im.w : im.px[y][x] = 0
    /\ \E y \in 1..im.h, x \in 1..im.w : im.px[y][x] = FirstBlack
    /\ \E y \in 1..im.h, x \in 1..im.w : im.px[y][x] \notin {0, FirstBlack}

-----------------------------------------------------------------------------
(* the bitmap *)

BitOf(byte, n) == (byte \div (2 ^ n)) % 2

\* pixel (x, y) is INK: not index 0 and not the paper of its cell
IsInk(x, y) ==
    /\ buf[y + 1][x + 1] # 0
    /\ buf[y + 1][x + 1] # tmp[(y \div 8) + 1][(x \div 8) + 1][1]

Packed == tmp # <<>>

\* C9: the bit of pixel (x,y) is bit 7 - x mod 8 of byte y*ceil(w/8) + x div 8
\* and is 1 exactly when the pixel is neither 0 nor the paper of its cell;
\* the last byte of a row of a width that is no multiple of 8 holds the
\* remaining pixels in its most significant bits and 0 below them, and no
\* row reaches into the bytes of another.
BitmapBits ==
    Packed =>
        /\ Len(_scr) = CeilDiv8(im.w) * im.h
        /\ \A y \in 0..(im.h - 1), x \in 0..(8 * CeilDiv8(im.w) - 1) :
              LET byte == _scr[y * CeilDiv8(im.w) + (x \div 8) + 1]
              IN  /\ byte \in 0..255
                  /\ BitOf(byte, 7 - (x % 8)) = IF x < im.w /\ IsInk(x, y) THEN 1 ELSE 0

BitmapWitness ==
    /\ Packed /\ im.w > 8 /\ im.w % 8 # 0 /\ im.h > 1
    /\ \E y \in 0..(im.h - 1) : IsInk(im.w - 1, y)
    /\ \E y \in 0..(im.h - 1), x \in 0..(im.w - 1) :
          buf[y + 1][x + 1] # 0 /\ ~IsInk(x, y)

-----------------------------------------------------------------------------
(* the attributes *)

\* ink's BRIGHT after the conflict resolution of cell k
InkBright(k) ==
    IF CellConflict(k) THEN (IF prefer = "true" THEN 1 ELSE 0)
    ELSE BrightBit(InkAttr(k))

\* C10: attribute byte cy*ceil(w/8) + cx is (ink' | (paperAttr << 3)) & 0xff:
\* bits 0-2 the ink hue, bits 3-5 the paper hue, bit 6 the BRIGHT bit of ink
\* after conflict resolution (forced to 1 under prefer-bright and to 0 under
\* prefer-dim when both attributes are nonzero and differ in BRIGHT), bit 7
\* (FLASH) 0 in every emitted byte.
AttributeBytes ==
    \A k \in 0..(Len(_attr) - 1) :
        /\ _attr[k + 1] = (InkAttr(k) % 8) + 8 * (PaperAttr(k) % 8) + 64 * InkBright(k)
        /\ BitOf(_attr[k + 1], 7) = 0
        /\ _attr[k + 1] \in 0..255

AttributeWitness ==
    /\ Converted /\ prefer = "true"
    /\ \E k \in 0..(Len(_attr) - 1) : CellConflict(k) /\ BrightBit(PaperAttr(k)) = 1
    /\ \E k \in 0..(Len(_attr) - 1) : CellConflict(k) /\ BrightBit(PaperAttr(k)) = 0

-----------------------------------------------------------------------------
(* the two-colour reduction *)

\* the indices that occur in cell (cx, cy), index 0 included
DistinctIn(cx, cy) == {buf[p[2] + 1][p[1] + 1] : p \in CellPixels(cx, cy)}

\* the paper and ink index of the cell of pixel (x, y)
PaperIndex(x, y) == tmp[(y \div 8) + 1][(x \div 8) + 1][1]
InkIndex(x, y) == tmp[(y \div 8) + 1][(x \div 8) + 1][2]

\* the bitmap bit of pixel (x, y), read from the bytes of _scr
BitAt(x, y) == BitOf(_scr[y * CeilDiv8(im.w) + (x \div 8) + 1], 7 - (x % 8))

\* the index the bitmap bit of pixel (x, y) selects: the ink of its cell when
\* the bit is 1, the paper when it is 0
Rendered(x, y) ==
    IF BitAt(x, y) = 1 THEN InkIndex(x, y) ELSE PaperIndex(x, y)

\* C11: in every cell of the normalized picture with at most two distinct
\* indices, the index selected by a pixel's bitmap bit (ink for 1, paper for
\* 0) is the pixel's own index; in a cell with three or more distinct indices
\* every pixel that is neither index 0 nor the cell's paper has bit 1.
ReductionLossless ==
    Packed =>
        \A c \in CellGrid :
            IF Cardinality(DistinctIn(c[1], c[2])) =< 2
            THEN \A p \in CellPixels(c[1], c[2]) :
                    Rendered(p[1], p[2]) = buf[p[2] + 1][p[1] + 1]
            ELSE \A p \in CellPixels(c[1], c[2]) :
                    buf[p[2] + 1][p[1] + 1] \notin {0, PaperIndex(p[1], p[2])}
                        => BitAt(p[1], p[2]) = 1

\* a cell of two non-zero indices holding both bit values, a cell of index 0
\* and one other, and a cell of three indices in which a pixel is rendered
\* as an ink that is not its own index
ReductionWitness ==
    /\ Packed
    /\ \E c \in CellGrid :
          /\ Cardinality(DistinctIn(c[1], c[2])) = 2 /\ 0 \notin DistinctIn(c[1], c[2])
          /\ \E p \in CellPixels(c[1], c[2]), q \in CellPixels(c[1], c[2]) :
                BitAt(p[1], p[2]) = 1 /\ BitAt(q[1], q[2]) = 0
    /\ \E c \in CellGrid :
          /\ Cardinality(DistinctIn(c[1], c[2])) = 2 /\ 0 \in DistinctIn(c[1], c[2])
          /\ \E p \in CellPixels(c[1], c[2]) : BitAt(p[1], p[2]) = 1
    /\ \E c \in CellGrid :
          /\ Cardinality(DistinctIn(c[1], c[2])) >= 3
          /\ \E p \in CellPixels(c[1], c[2]) :
                /\ BitAt(p[1], p[2]) = 1
                /\ Rendered(p[1], p[2]) # buf[p[2] + 1][p[1] + 1]

====
